---- MODULE Spec2Model ----
(***************************************************************************)
(* Model of 2_gc-pipeline/serving/data.py: the Earth Engine data           *)
(* utilities.  One behaviour is one call of one of the module's functions  *)
(* (get_input_image_ee, get_input_patch, get_label_patch, get_patch)       *)
(* against a remote service whose answers are chosen by the environment.   *)
(*                                                                         *)
(* Time is counted in ticks of one minute: the retry deadline of           *)
(* get_patch, 10 * 60 seconds, is 10 ticks, and the largest backoff wait   *)
(* of google.api_core.retry.Retry (maximum = 60 seconds) is one tick.      *)
(* Every GET takes at least one tick.                                      *)
(***************************************************************************)
EXTENDS Integers, Sequences, FiniteSets, TLC

\* ---------------------------------------------------------------- bounds
MaxPatch == 2       \* patch_size ranges over 1..MaxPatch
MaxScale == 2       \* scale ranges over 1..MaxScale and SCALE
MaxBands == 2       \* a payload carries 1..MaxBands bands
MaxLatency == 2     \* a GET takes 1..MaxLatency ticks
MaxMonth == 13      \* month ranges over -1..MaxMonth
MaxImages == 1      \* the filtered cropland collection holds 0..MaxImages images

\* ------------------------------------------------------ program constants
SCALE == 100        \* metres per pixel
Deadline == 10      \* retry.Retry(deadline=10 * 60), in ticks of 60 seconds
Maximum == 1        \* retry.Retry default maximum delay, 60 seconds, in ticks

\* The names bound at module level once data.py has been imported.
Globals ==
    { "io", "ee", "exceptions", "retry", "google", "np",
      "structured_to_unstructured", "requests", "Dict", "SCALE",
      "ee_init", "get_input_image_ee", "get_input_patch", "get_label_patch",
      "get_patch" }

\* retry.Retry() without a predicate uses google.api_core.retry.if_transient_error.
\* Up to google-api-core 1.x it lists three API errors; since 2.0 it also lists
\* the transport errors of requests and google.auth.
TransientApiErrors == {"InternalServerError", "TooManyRequests", "ServiceUnavailable"}
TransientTransportErrors == {"ConnectionError", "ChunkedEncodingError", "TransportError"}
Predicates == {TransientApiErrors, TransientApiErrors \cup TransientTransportErrors}

Points == {<<-122, 37>>, <<0, 0>>}
Scales == (1..MaxScale) \cup {SCALE}
Months == (0 - 1)..MaxMonth
Statuses == {200, 404, 429, 500}

VARIABLES
    fn,         \* the function called
    args,       \* its arguments
    remote,     \* the state of the remote collections
    predicate,  \* the exception types the Retry decorator retries
    pc,         \* position in the called function
    now,        \* wall clock, in ticks since the call started
    urlLog,     \* the parameters of every getDownloadURL request, in order
    gets,       \* number of requests.get calls issued
    inflight,   \* number of GETs sent and not yet answered
    response,   \* the last response received
    exc,        \* the exception the last attempt ended with, "none" if none
    n429,       \* attempts that ended with a 429 response
    nConn,      \* attempts that ended with a transport failure of the GET
    sleeps,     \* backoff waits completed
    wait,       \* the backoff wait drawn when the deadline was found exceeded
    stdout,     \* lines printed
    cdl_image,  \* the local cdl_image of get_input_image_ee: "unbound" or "first"
    result,     \* "none", "return" or "raise"
    raised,     \* the exception type surfaced to the caller
    retval      \* <<v>> when the call returned v, <<>> otherwise

vars == <<fn, args, remote, predicate, pc, now, urlLog, gets, inflight, response,
          exc, n429, nConn, sleeps, wait, stdout, cdl_image, result, raised, retval>>

patchVars == <<now, urlLog, gets, inflight, response, exc, n429, nConn, sleeps, wait>>
imageVars == <<stdout, cdl_image>>
callVars == <<fn, args, remote, predicate>>

NoArgs ==
    [county |-> "", crop |-> 0, year |-> 0, month |-> 0,
     lonlat |-> <<0, 0>>, patch_size |-> 0, scale |-> 0]

NoResponse == [status |-> 0, content |-> [magic |-> FALSE, shape |-> <<0, 0>>, names |-> {}]]

\* ------------------------------------------------------------- get_patch

\* scale * patch_size / 2 metres, written in half-metres so that the true
\* division keeps its halves.
BufferDistanceFloor(patch_size, scale) == 2 * ((scale * patch_size) \div 2)
BufferDistance(patch_size, scale) == scale * patch_size

\* ee.Geometry.Point(lonlat).buffer(d, 1): the disc of radius d around the point.
Buffer(lonlat, d) == [centre |-> lonlat, radius |-> d]

\* .bounds(1): the bounding square of the disc; sides in half-metres.
Bounds(disc) ==
    [centre |-> disc.centre, width |-> 2 * disc.radius, height |-> 2 * disc.radius]

\* The dictionary handed to image.getDownloadURL.
DownloadParams(lonlat, patch_size, scale) ==
    [region |-> Bounds(Buffer(lonlat, BufferDistance(patch_size, scale))),
     dimensions |-> <<patch_size, patch_size>>,
     format |-> "NPY"]

\* The bodies a 200 response can carry for a request of the given dimensions:
\* an NPY file of a structured array with one field per band, or bytes that do
\* not start with the NPY magic string.
Contents(dims) ==
    { [magic |-> m, shape |-> dims, names |-> 1..b] : m \in BOOLEAN, b \in 1..MaxBands }

\* response.raise_for_status(): HTTPError for 4xx and 5xx.
RaisesOnlyServerErrors(status) == status >= 500 /\ status < 600
RaisesForStatus(status) == status >= 400 /\ status < 600

\* np.load(io.BytesIO(content)): fails unless the bytes are an NPY file.
NpLoadNeverFails(content) == FALSE
NpLoadFails(content) == ~content.magic
NpLoad(content) == [shape |-> content.shape, fields |-> content.names]

\* numpy.lib.recfunctions.structured_to_unstructured: the fields become the
\* last axis.
StructuredToUnstructured(arr) ==
    [shape |-> Append(arr.shape, Cardinality(arr.fields))]

\* The predicate of the Retry decorator applied to an exception type.
RetriesEverything(e) == TRUE
RetriesNothing(e) == FALSE
IsTransient(e) == e \in predicate

\* retry_target's test that time t lies after the deadline of the call, which
\* started at tick 0.
PastTwiceDeadline(t) == t > 2 * Deadline
PastDeadline(t) == t > Deadline

Return(v) ==
    /\ result' = "return"
    /\ retval' = <<v>>
    /\ raised' = "none"
    /\ pc' = "done"

Raise(e) ==
    /\ result' = "raise"
    /\ raised' = e
    /\ retval' = <<>>
    /\ pc' = "done"

Running == /\ result' = result /\ raised' = raised /\ retval' = retval

\* One attempt, lines 177-184: build the region and request a download URL.
GetDownloadURL ==
    /\ pc = "gp_url"
    /\ urlLog' = Append(urlLog, DownloadParams(args.lonlat, args.patch_size, args.scale))
    /\ pc' = "gp_get"
    /\ exc' = "none"
    /\ Running
    /\ UNCHANGED <<now, gets, inflight, response, n429, nConn, sleeps, wait>>
    /\ UNCHANGED <<callVars, imageVars>>

\* image.getDownloadURL fails: ee.EEException leaves the attempt.
GetDownloadURLFails ==
    /\ pc = "gp_url"
    /\ urlLog' = Append(urlLog, DownloadParams(args.lonlat, args.patch_size, args.scale))
    /\ exc' = "EEException"
    /\ pc' = "retry"
    /\ Running
    /\ UNCHANGED <<now, gets, inflight, response, n429, nConn, sleeps, wait>>
    /\ UNCHANGED <<callVars, imageVars>>

\* Line 188: requests.get(url) is sent and blocks.
RequestsGetTwice ==
    /\ pc = "gp_get"
    /\ gets' = gets + 2
    /\ inflight' = inflight + 1
    /\ pc' = "gp_resp"
    /\ Running
    /\ UNCHANGED <<now, urlLog, response, exc, n429, nConn, sleeps, wait>>
    /\ UNCHANGED <<callVars, imageVars>>

RequestsGet ==
    /\ pc = "gp_get"
    /\ gets' = gets + 1
    /\ inflight' = inflight + 1
    /\ pc' = "gp_resp"
    /\ Running
    /\ UNCHANGED <<now, urlLog, response, exc, n429, nConn, sleeps, wait>>
    /\ UNCHANGED <<callVars, imageVars>>

\* Lines 188-194: the response arrives and the rest of the body runs.
Respond ==
    /\ pc = "gp_resp"
    /\ \E d \in 1..MaxLatency, status \in Statuses :
       \E content \in IF status = 200
                      THEN Contents(urlLog[Len(urlLog)].dimensions)
                      ELSE {NoResponse.content} :
          /\ now' = now + d
          /\ inflight' = inflight - 1
          /\ response' = [status |-> status, content |-> content]
          /\ IF status = 429
             THEN /\ exc' = "TooManyRequests"
                  /\ n429' = n429 + 1
                  /\ pc' = "retry"
                  /\ Running
             ELSE IF RaisesForStatus(status)
             THEN /\ exc' = "HTTPError"
                  /\ n429' = n429
                  /\ pc' = "retry"
                  /\ Running
             ELSE IF NpLoadFails(content)
             THEN /\ exc' = "ValueError"
                  /\ n429' = n429
                  /\ pc' = "retry"
                  /\ Running
             ELSE /\ exc' = "none"
                  /\ n429' = n429
                  /\ Return(IF fn = "get_patch"
                            THEN NpLoad(content)
                            ELSE StructuredToUnstructured(NpLoad(content)))
    /\ UNCHANGED <<urlLog, gets, nConn, sleeps, wait>>
    /\ UNCHANGED <<callVars, imageVars>>

\* Line 188: requests.get fails without a response (requests.ConnectionError).
ConnectionFails ==
    /\ pc = "gp_resp"
    /\ \E d \in 1..MaxLatency : now' = now + d
    /\ inflight' = inflight - 1
    /\ exc' = "ConnectionError"
    /\ nConn' = nConn + 1
    /\ pc' = "retry"
    /\ Running
    /\ UNCHANGED <<urlLog, gets, response, n429, sleeps, wait>>
    /\ UNCHANGED <<callVars, imageVars>>

\* Line 158, retry_target: an exception the predicate rejects is re-raised.
RetryReraise ==
    /\ pc = "retry"
    /\ ~IsTransient(exc)
    /\ Raise(exc)
    /\ UNCHANGED <<callVars, imageVars, patchVars>>

\* Line 158, retry_target: the next backoff wait would end after the deadline.
RetryDeadlineExceeded ==
    /\ pc = "retry"
    /\ IsTransient(exc)
    /\ \E sleep \in 0..Maximum :
          /\ PastDeadline(now + sleep)
          /\ wait' = sleep
    /\ Raise("RetryError")
    /\ UNCHANGED <<now, urlLog, gets, inflight, response, exc, n429, nConn, sleeps>>
    /\ UNCHANGED <<callVars, imageVars>>

\* Line 158, retry_target: sleep for the jittered backoff wait, then call again.
RetrySleep ==
    /\ pc = "retry"
    /\ IsTransient(exc)
    /\ \E sleep \in 0..Maximum :
          /\ ~PastDeadline(now + sleep)
          /\ now' = now + sleep
    /\ sleeps' = sleeps + 1
    /\ pc' = "gp_url"
    /\ Running
    /\ UNCHANGED <<urlLog, gets, inflight, response, exc, n429, nConn, wait>>
    /\ UNCHANGED <<callVars, imageVars>>

\* ------------------------------------------- get_input_patch, get_label_patch

\* Lines 136-137 and 153-154: look the image builder up in the module's
\* globals, call it, and hand the image to get_patch with SCALE.
CallImageBuilder(name) ==
    IF name \in Globals
    THEN /\ pc' = "gp_url"
         /\ args' = [args EXCEPT !.scale = SCALE]
         /\ Running
    ELSE /\ Raise("NameError")
         /\ args' = args

GetInputPatch ==
    /\ pc = "input_patch"
    /\ CallImageBuilder("get_input_image")
    /\ UNCHANGED <<fn, remote, predicate, imageVars, patchVars>>

GetLabelPatch ==
    /\ pc = "label_patch"
    /\ CallImageBuilder("get_label_image")
    /\ UNCHANGED <<fn, remote, predicate, imageVars, patchVars>>

\* ------------------------------------------------------ get_input_image_ee

\* Line 60.
MonthValid(month) == month >= 1 /\ month <= 11

\* Line 117.
ImgName(county, year, month) == <<county, year, month, month + 1>>

AssertMonth ==
    /\ pc = "img_assert"
    /\ IF MonthValid(args.month)
       THEN pc' = "img_size" /\ Running
       ELSE Raise("AssertionError")
    /\ UNCHANGED <<callVars, imageVars, patchVars>>

\* Lines 87-91: cdl_county_masked.size().getInfo().
CheckCollection ==
    /\ pc = "img_size"
    /\ IF remote.cdlSize = 0
       THEN /\ stdout' = Append(stdout, "No data found for the specified parameters.")
            /\ cdl_image' = cdl_image
       ELSE /\ stdout' = stdout
            /\ cdl_image' = "first"
    /\ pc' = "img_centroid"
    /\ Running
    /\ UNCHANGED <<callVars, patchVars>>

\* Lines 93-94: the centroid of the county is fetched with getInfo.
Centroid ==
    /\ pc = "img_centroid"
    /\ IF remote.countyFound
       THEN pc' = "img_compose" /\ Running
       ELSE Raise("EEException")
    /\ UNCHANGED <<callVars, imageVars, patchVars>>

\* Lines 103-122: the composite reads the local cdl_image, then the result
\* is returned.
Compose ==
    /\ pc = "img_compose"
    /\ IF cdl_image = "unbound"
       THEN Raise("UnboundLocalError")
       ELSE Return([image |-> "s2_img",
                    image_name |-> ImgName(args.county, args.year, args.month)])
    /\ UNCHANGED <<callVars, imageVars, patchVars>>

\* ------------------------------------------------------------------ system

InitCommon ==
    /\ now = 0
    /\ urlLog = <<>>
    /\ gets = 0
    /\ inflight = 0
    /\ response = NoResponse
    /\ exc = "none"
    /\ n429 = 0
    /\ nConn = 0
    /\ sleeps = 0
    /\ wait = 0
    /\ stdout = <<>>
    /\ cdl_image = "unbound"
    /\ result = "none"
    /\ raised = "none"
    /\ retval = <<>>

Init ==
    /\ InitCommon
    /\ predicate \in Predicates
    /\ \/ /\ fn = "get_input_image_ee"
          /\ pc = "img_assert"
          /\ \E m \in Months :
                args = [NoArgs EXCEPT !.county = "Alameda", !.crop = 1,
                                      !.year = 2020, !.month = m]
          /\ remote \in [cdlSize : 0..MaxImages, countyFound : BOOLEAN]
       \/ /\ fn = "get_patch"
          /\ pc = "gp_url"
          /\ \E p \in Points, n \in 1..MaxPatch, s \in Scales :
                args = [NoArgs EXCEPT !.lonlat = p, !.patch_size = n, !.scale = s]
          /\ remote = [cdlSize |-> 0, countyFound |-> FALSE]
       \/ /\ fn = "get_input_patch"
          /\ pc = "input_patch"
          /\ \E p \in Points, n \in 1..MaxPatch :
                args = [NoArgs EXCEPT !.year = 2020, !.lonlat = p, !.patch_size = n]
          /\ remote = [cdlSize |-> 0, countyFound |-> FALSE]
       \/ /\ fn = "get_label_patch"
          /\ pc = "label_patch"
          /\ \E p \in Points, n \in 1..MaxPatch :
                args = [NoArgs EXCEPT !.lonlat = p, !.patch_size = n]
          /\ remote = [cdlSize |-> 0, countyFound |-> FALSE]

Next ==
    \/ GetDownloadURL
    \/ GetDownloadURLFails
    \/ RequestsGet
    \/ Respond
    \/ ConnectionFails
    \/ RetryReraise
    \/ RetryDeadlineExceeded
    \/ RetrySleep
    \/ GetInputPatch
    \/ GetLabelPatch
    \/ AssertMonth
    \/ CheckCollection
    \/ Centroid
    \/ Compose

Spec == Init /\ [][Next]_vars

\* The interpreter always takes the next step, and every request completes.
FairSpec == Spec /\ WF_vars(Next)

\* ------------------------------------------------------------------ claims

IsPatchCall == fn = "get_patch"
IsImageCall == fn = "get_input_image_ee"
Done == pc = "done"
Attempts == Len(urlLog)

\* C1: when the first N GETs of a get_patch call are answered 429 and GET
\* N+1 is answered 200 with a decodable body, the call returns the array
\* decoded from that body and has made exactly N+1 attempts (N+1 URL requests
\* and N+1 GETs); a 429 ends the call only when the next backoff wait no
\* longer fits inside the deadline; and every attempt that is started is
\* eventually answered.
C1_Safe ==
    IsPatchCall =>
      /\ (nConn = 0 /\ response.status = 200 /\ response.content.magic) =>
            /\ result = "return"
            /\ Done
            /\ retval = <<[shape |-> response.content.shape,
                           fields |-> response.content.names]>>
            /\ gets = n429 + 1
            /\ Attempts = n429 + 1
      /\ (Done /\ exc = "TooManyRequests") =>
            /\ raised = "RetryError"
            /\ now + wait > Deadline

C1_Returns429Then200 ==
    [] C1_Safe /\ ((IsPatchCall /\ pc = "gp_get") ~> (pc \in {"retry", "done"}))

C1_Witness ==
    /\ IsPatchCall
    /\ n429 = 2
    /\ nConn = 0
    /\ response.status = 200
    /\ result = "return"
    /\ gets = 3

\* C2: when every GET of a get_patch call is answered 429, the call never
\* returns a payload and never surfaces the 429 error itself; no attempt starts
\* after the deadline; the call ends, with the deadline-exceeded RetryError,
\* raised when the next backoff wait would end after the deadline.
C2_Only429 == nConn = 0 /\ exc \in {"none", "TooManyRequests"} /\ result # "return"

C2_Safe ==
    IsPatchCall =>
      /\ raised # "TooManyRequests"
      /\ (pc \in {"gp_url", "gp_get"}) => now <= Deadline
      /\ (Done /\ C2_Only429) =>
            /\ raised = "RetryError"
            /\ retval = <<>>
            /\ now + wait > Deadline
            /\ gets = n429

C2_Always429Deadline ==
    [] C2_Safe /\ <>(~(IsPatchCall /\ C2_Only429) \/ raised = "RetryError")

C2_Witness ==
    /\ IsPatchCall
    /\ Done
    /\ C2_Only429
    /\ raised = "RetryError"
    /\ n429 >= 3
    /\ now >= Deadline

\* C3: a response with an error status other than 429 (here 404 or 500) ends
\* the get_patch call with the HTTPError of that response and no further
\* attempt: after k retried attempts the call count is exactly k+1.
C3_HttpErrorNotRetried ==
    (IsPatchCall /\ response.status \in {404, 500}) =>
       /\ exc = "HTTPError"
       /\ pc \in {"retry", "done"}
       /\ Done => (result = "raise" /\ raised = "HTTPError")
       /\ gets = n429 + nConn + 1
       /\ Attempts = gets
       /\ inflight = 0

C3_Witness ==
    /\ IsPatchCall
    /\ response.status = 500
    /\ Done
    /\ raised = "HTTPError"
    /\ n429 = 2
    /\ nConn = 0
    /\ gets = 3

\* C4: for every month in 1..11 get_input_image_ee does not raise, whatever
\* the cropland collection holds (the county exists); for every other month
\* it ends with an AssertionError.
C4_MonthDecidesFailure ==
    (IsImageCall /\ remote.countyFound) =>
       /\ (args.month \in 1..11) => result # "raise"
       /\ (args.month \notin 1..11 /\ Done) => raised = "AssertionError"

\* C5: with an empty cropland collection (valid month, existing county)
\* get_input_image_ee prints the diagnostic and completes, returning the image
\* descriptor and its name.
C5_EmptyCollectionCompletes ==
    (IsImageCall /\ args.month \in 1..11 /\ remote.countyFound
        /\ remote.cdlSize = 0 /\ Done) =>
       /\ Len(stdout) = 1
       /\ result = "return"
       /\ Len(retval) = 1

\* C6: get_input_patch and get_label_patch, when no request to the service
\* fails, return an array of shape (patch_size, patch_size, B) fetched with
\* scale 100.
C6_WrappersReturnArray ==
    (fn \in {"get_input_patch", "get_label_patch"} /\ Done /\ exc = "none") =>
       /\ result = "return"
       /\ args.scale = SCALE
       /\ Len(retval) = 1
       /\ Len(retval[1].shape) = 3
       /\ retval[1].shape[1] = args.patch_size
       /\ retval[1].shape[2] = args.patch_size

C7_Step ==
    (IsPatchCall /\ pc = "retry") =>
       /\ (exc \in {"EEException", "HTTPError", "ValueError"}) =>
             (pc' = "done" /\ raised' = exc /\ urlLog' = urlLog /\ gets' = gets)
       /\ (exc = "ConnectionError" /\ exc \notin predicate) =>
             (pc' = "done" /\ raised' = exc /\ urlLog' = urlLog /\ gets' = gets)
       /\ (exc = "TooManyRequests" \/ (exc = "ConnectionError" /\ exc \in predicate)) =>
             \/ pc' = "gp_url" /\ sleeps' = sleeps + 1 /\ result' = "none"
             \/ pc' = "done" /\ raised' = "RetryError"

C9_RegionAndDimensions ==
    IsPatchCall =>
       \A i \in 1..Len(urlLog) :
          /\ urlLog[i].region.centre = args.lonlat
          /\ urlLog[i].region.width = 2 * args.scale * args.patch_size
          /\ urlLog[i].region.height = 2 * args.scale * args.patch_size
          /\ urlLog[i].dimensions = <<args.patch_size, args.patch_size>>
          /\ urlLog[i].format = "NPY"
          /\ urlLog[i] = urlLog[1]

C9_Witness ==
    /\ IsPatchCall
    /\ Len(urlLog) >= 3
    /\ args.scale = 1
    /\ args.patch_size = 1
    /\ urlLog[3].region.width = 2

C10_Returned ==
    /\ result = "return"
    /\ raised = "none"
    /\ exc = "none"
    /\ response.status = 200
    /\ response.content.magic
    /\ retval = <<[shape |-> response.content.shape, fields |-> response.content.names]>>

C10_Failed ==
    /\ result = "raise"
    /\ retval = <<>>
    /\ raised = exc
    /\ exc \in {"EEException", "HTTPError", "ValueError", "ConnectionError"}
    /\ exc \notin predicate

C10_TimedOut ==
    /\ result = "raise"
    /\ retval = <<>>
    /\ raised = "RetryError"
    /\ exc \in {"TooManyRequests", "ConnectionError"}
    /\ exc \in predicate
    /\ now + wait > Deadline

C10_Safe ==
    IsPatchCall =>
       /\ Done <=> result # "none"
       /\ Done => (C10_Returned \/ C10_Failed \/ C10_TimedOut)
       /\ raised # "TooManyRequests"

====
